---- MODULE Spec2Model ----
(***************************************************************************)
(* A model of pythonalsa/alsa.py: the Card and Mixer classes, the scoped   *)
(* mixer handle, the percentage <-> raw volume conversions and the error   *)
(* translation of native status codes.                                     *)
(*                                                                         *)
(* The native library (libasound) is the environment.  Every native call   *)
(* that returns a status code may return a negative one; which call fails  *)
(* is an input of each operation (its "plan": one outcome per mixer scope  *)
(* the operation opens).  A native call that fails changes nothing and     *)
(* leaves its out-parameters as ctypes initialised them (0).  The native   *)
(* volume setter ignores a value outside the element's range, so the raw   *)
(* volume stays within [min, max].                                         *)
(***************************************************************************)
EXTENDS Integers, Sequences, FiniteSets, TLC

VARIABLES hw, openM, openC, nameCache, gen, res, sc

vars == <<hw, openM, openC, nameCache, gen, res, sc>>

(* ---------------------------- bounds ----------------------------------- *)

\* widest volume range of the stateful specifications
MaxWidth == 3
\* widest volume range of the conversion specification
MaxScaleWidth == 200
\* number of playback channels of the element
NumChannels == 2

Channels == 0 .. (NumChannels - 1)
\* lower ends of the ranges the hardware may report
MinChoices == {-2, 0}
\* percentages the caller passes to the setter in the stateful specification
PercentInputs == {-1, 0, 50, 100, 101}

(* ---------------------------- values ----------------------------------- *)

NoneV == [tag |-> "none", i |-> 0, j |-> 0, s |-> ""]
IntV(n) == [tag |-> "int", i |-> n, j |-> 0, s |-> ""]
BoolV(b) == [tag |-> "bool", i |-> IF b THEN 1 ELSE 0, j |-> 0, s |-> ""]
PairV(a, b) == [tag |-> "pair", i |-> a, j |-> b, s |-> ""]
NonePairV == [tag |-> "nonepair", i |-> 0, j |-> 0, s |-> ""]
StrV(str) == [tag |-> "str", i |-> 0, j |-> 0, s |-> str]
MixerV(name, index) == [tag |-> "mixer", i |-> index, j |-> 0, s |-> name]
GeneratorV == [tag |-> "generator", i |-> 0, j |-> 0, s |-> ""]

\* results of a call: a return value or a raised exception
Ok(w, v) == [w |-> w, kind |-> "ok", val |-> v, summary |-> ""]
Raise(w, kind, summary) == [w |-> w, kind |-> kind, val |-> NoneV, summary |-> summary]

(* ------------------------- native layer -------------------------------- *)

\* the mixer elements of the card, in the order of the native element list
ElemNames == <<"Master", "Capture">>

Device == "hw:0"
CardName == "HDA Intel"
NoName == ""

\* one native call and the status (or value) it returned
Call(w, f, st) == [w EXCEPT !.trace = Append(@, [f |-> f, st |-> st])]

\* the outcome the environment chose for the scope being opened
NextOutcome(w) == IF w.plan = <<>> THEN "ok" ELSE Head(w.plan)
PopOutcome(w) ==
  [w EXCEPT !.cur = NextOutcome(w),
            !.plan = IF @ = <<>> THEN <<>> ELSE Tail(@)]

Status(w, step) == IF w.cur = step THEN -1 ELSE 0

ElemExists(name, index) ==
  index = 0 /\ \E k \in 1 .. Len(ElemNames) : ElemNames[k] = name

HasPlaybackVolume(w, name) == name = "Master" /\ w.hw.pvol
HasPlaybackSwitch(w, name) == name = "Master" /\ w.hw.psw

\* snd_mixer_selem_set_playback_volume_all: a value outside the range of
\* the element is ignored
SetPlaybackVolumeAll(w, value) ==
  Call(IF Status(w, "call") < 0 \/ value < w.hw.vmin \/ value > w.hw.vmax
       THEN w
       ELSE [w EXCEPT !.hw.vol = [c \in Channels |-> value]],
       "snd_mixer_selem_set_playback_volume_all", Status(w, "call"))

SetPlaybackSwitchAll(w, value) ==
  Call(IF Status(w, "call") < 0 THEN w
       ELSE [w EXCEPT !.hw.sw = [c \in Channels |-> value]],
       "snd_mixer_selem_set_playback_switch_all", Status(w, "call"))

(* ------------------------- error translator ---------------------------- *)

\* _check_error: TRUE when the status makes it raise ALSAError
CheckErrorRaises(err) == err < 0

\* the world after _check_error ran on status err
CheckError(w, err) ==
  IF CheckErrorRaises(err) THEN Call(w, "snd_strerror", 0) ELSE w

(* ------------------------- mixer scope --------------------------------- *)

\* the finally clause of make_alsa_mixer_handle
CloseMixerHandle(w) ==
  Call([w EXCEPT !.openM = @ - 1], "snd_mixer_close", 0)

\* snd_mixer_open and its _check_error, before the try block
OpenMixer(w) ==
  IF CheckErrorRaises(Status(w, "open"))
  THEN [w |-> CheckError(Call(w, "snd_mixer_open", Status(w, "open")),
                         Status(w, "open")),
        entered |-> FALSE, summary |-> "Failed to open mixer"]
  ELSE [w |-> Call([w EXCEPT !.openM = @ + 1], "snd_mixer_open", 0),
        entered |-> TRUE, summary |-> ""]

\* SetupStep with the try block entered only after the step: a failing
\* step leaves the handle open
SetupStepNoClose(h, step, f, summary) ==
  IF ~h.entered THEN h
  ELSE IF CheckErrorRaises(Status(h.w, step))
  THEN [w |-> CheckError(Call(h.w, f, Status(h.w, step)), Status(h.w, step)),
        entered |-> FALSE, summary |-> summary]
  ELSE [h EXCEPT !.w = Call(h.w, f, 0)]

\* one checked native call inside the try block: when it fails, the finally
\* clause closes the handle and ALSAError(summary) propagates
SetupStep(h, step, f, summary) ==
  IF ~h.entered THEN h
  ELSE IF CheckErrorRaises(Status(h.w, step))
  THEN [w |-> CloseMixerHandle(
                CheckError(Call(h.w, f, Status(h.w, step)), Status(h.w, step))),
        entered |-> FALSE, summary |-> summary]
  ELSE [h EXCEPT !.w = Call(h.w, f, 0)]

\* make_alsa_mixer_handle up to its yield: entered is TRUE when the handle
\* is yielded, otherwise ALSAError(summary) is raised
MakeAlsaMixerHandle(w) ==
  SetupStep(
    SetupStep(
      SetupStep(OpenMixer(PopOutcome(w)),
                "attach", "snd_mixer_attach",
                "Failed to attach mixer to " \o Device),
      "register", "snd_mixer_selem_register",
      "Failed to register mixer elements"),
    "load", "snd_mixer_load", "Failed to load mixer elements")

\* _make_alsa_elem after the handle was yielded: the lookup of the element;
\* the caller is now inside the with block of make_alsa_mixer_handle
FindSelem(w, m) ==
  Call(Call(Call(Call([w EXCEPT !.inScope = TRUE],
    "snd_mixer_selem_id_sizeof", 0),
    "snd_mixer_selem_id_set_name", 0),
    "snd_mixer_selem_id_set_index", 0),
    "snd_mixer_find_selem", IF ElemExists(m, 0) THEN 1 ELSE 0)

\* the with block of _make_alsa_elem ended (by return or by an exception):
\* the scopes around it exit and the handle is closed
ExitElem(r) ==
  IF r.w.inScope
  THEN [r EXCEPT !.w = CloseMixerHandle([r.w EXCEPT !.inScope = FALSE])]
  ELSE r

\* _make_alsa_elem on the outcome h of make_alsa_mixer_handle
FoundElem(h, m) ==
  IF ~h.entered THEN Raise(h.w, "ALSAError", h.summary)
  ELSE IF ~ElemExists(m, 0)
  THEN ExitElem(Raise(FindSelem(h.w, m), "ALSAError",
                      "Mixer element '" \o m \o "' index 0 not found"))
  ELSE Ok(FindSelem(h.w, m), NoneV)

\* with self._make_alsa_elem() as elem: the block runs on an "ok" result
EnterElem(w, m) == FoundElem(MakeAlsaMixerHandle(w), m)

(* --------------------------- conversions ------------------------------- *)

\* Python's round() of the rational n / d, d > 0: nearest integer, ties to
\* the even one
Round(n, d) ==
  LET f == n \div d
      r == n - f * d
  IN  IF 2 * r < d THEN f
      ELSE IF 2 * r > d THEN f + 1
      ELSE IF f % 2 = 0 THEN f ELSE f + 1

\* RawToPercent without the test for a zero-width range
RawToPercentNoGuard(w, raw, vmin, vmax) ==
  IF vmax - vmin = 0 THEN Raise(w, "ZeroDivisionError", "division by zero")
  ELSE IF vmax - vmin > 0
  THEN Ok(w, IntV(Round((raw - vmin) * 100, vmax - vmin)))
  ELSE Ok(w, IntV(Round((vmin - raw) * 100, vmin - vmax)))

\* the value the percentage getter returns for a raw volume and a range
RawToPercent(w, raw, vmin, vmax) ==
  IF vmax = vmin THEN Ok(w, IntV(0))
  ELSE IF vmax - vmin > 0
  THEN Ok(w, IntV(Round((raw - vmin) * 100, vmax - vmin)))
  ELSE Ok(w, IntV(Round((vmin - raw) * 100, vmin - vmax)))

\* PercentToRaw with int() in place of round(): rounds down
PercentToRawTrunc(value, vmin, vmax) ==
  (100 * vmin + value * (vmax - vmin)) \div 100

\* the raw volume the percentage setter computes
PercentToRaw(value, vmin, vmax) ==
  Round(100 * vmin + value * (vmax - vmin), 100)

(* ----------------------------- Mixer ----------------------------------- *)

\* a checked native call: ALSAError(summary) when status st is negative,
\* otherwise the value v
Checked(w, st, summary, v) ==
  IF CheckErrorRaises(st) THEN Raise(CheckError(w, st), "ALSAError", summary)
  ELSE Ok(w, v)

\* the with blocks of the Mixer properties; e is the outcome of entering
\* the element scope, and an exception raised there skips the block

QueryPlaybackVolume(e, m) ==
  IF e.kind # "ok" THEN e
  ELSE Ok(Call(e.w, "snd_mixer_selem_has_playback_volume",
               IF HasPlaybackVolume(e.w, m) THEN 1 ELSE 0),
          BoolV(HasPlaybackVolume(e.w, m)))

HasVolumeControl(w, m) == ExitElem(QueryPlaybackVolume(EnterElem(w, m), m))

QueryPlaybackSwitch(e, m) ==
  IF e.kind # "ok" THEN e
  ELSE Ok(Call(e.w, "snd_mixer_selem_has_playback_switch",
               IF HasPlaybackSwitch(e.w, m) THEN 1 ELSE 0),
          BoolV(HasPlaybackSwitch(e.w, m)))

HasMuteControl(w, m) == ExitElem(QueryPlaybackSwitch(EnterElem(w, m), m))

\* snd_mixer_selem_get_playback_volume_range: its status is dropped and the
\* out-parameters pmin, pmax (0 when the call wrote nothing) are returned
GetPlaybackVolumeRange(e) ==
  IF e.kind # "ok" THEN e
  ELSE IF Status(e.w, "call") < 0
  THEN Ok(Call(e.w, "snd_mixer_selem_get_playback_volume_range", -1),
          PairV(0, 0))
  ELSE Ok(Call(e.w, "snd_mixer_selem_get_playback_volume_range", 0),
          PairV(e.w.hw.vmin, e.w.hw.vmax))

\* volume_range after its call of has_volume_control gave c
RangeIfSupported(c, m) ==
  IF c.kind # "ok" THEN c
  ELSE IF c.val.i = 0 THEN Ok(c.w, NonePairV)
  ELSE ExitElem(GetPlaybackVolumeRange(EnterElem(c.w, m)))

VolumeRange(w, m) == RangeIfSupported(HasVolumeControl(w, m), m)

GetPlaybackVolume(e) ==
  IF e.kind # "ok" THEN e
  ELSE Checked(Call(e.w, "snd_mixer_selem_get_playback_volume",
                    Status(e.w, "call")),
               Status(e.w, "call"), "Failed to get playback volume",
               IntV(e.w.hw.vol[0]))

\* the volume getter after its call of has_volume_control gave c
VolumeIfSupported(c, m) ==
  IF c.kind # "ok" THEN c
  ELSE IF c.val.i = 0 THEN Ok(c.w, NoneV)
  ELSE ExitElem(GetPlaybackVolume(EnterElem(c.w, m)))

GetVolume(w, m) == VolumeIfSupported(HasVolumeControl(w, m), m)

SetPlaybackVolume(e, value) ==
  IF e.kind # "ok" THEN e
  ELSE Checked(SetPlaybackVolumeAll(e.w, value), Status(e.w, "call"),
               "Failed to set playback volume", NoneV)

\* the volume setter after its call of has_volume_control gave c
SetVolumeIfSupported(c, m, value) ==
  IF c.kind # "ok" THEN c
  ELSE IF c.val.i = 0
  THEN Raise(c.w, "ALSAError",
             "Mixer element '" \o m \o "' doesn't support playback volume")
  ELSE ExitElem(SetPlaybackVolume(EnterElem(c.w, m), value))

SetVolume(w, m, value) ==
  SetVolumeIfSupported(HasVolumeControl(w, m), m, value)

\* the percentage getter after self.volume gave v and self.volume_range g
PercentOverRange(v, g) ==
  IF g.kind # "ok" THEN g
  ELSE RawToPercent(g.w, v.val.i, g.val.i, g.val.j)

\* the percentage getter after self.volume gave v
PercentOfVolume(v, m) ==
  IF v.kind # "ok" THEN v
  ELSE IF v.val.tag = "none" THEN Ok(v.w, NoneV)
  ELSE PercentOverRange(v, VolumeRange(v.w, m))

GetVolumePercent(w, m) == PercentOfVolume(GetVolume(w, m), m)

\* the percentage setter after self.volume_range gave g
SetPercentOverRange(g, m, value) ==
  IF g.kind # "ok" THEN g
  ELSE IF g.val.tag = "nonepair"
  THEN Raise(g.w, "ALSAError",
             "Mixer element '" \o m \o "' doesn't support playback volume")
  ELSE SetVolume(g.w, m, PercentToRaw(value, g.val.i, g.val.j))

\* SetVolumePercent validating the percentage after the range lookup
SetVolumePercentLateCheck(w, m, value) ==
  IF VolumeRange(w, m).kind # "ok" THEN VolumeRange(w, m)
  ELSE IF ~(0 <= value /\ value <= 100)
  THEN Raise(VolumeRange(w, m).w, "ValueError",
             "Volume must be between 0 and 100")
  ELSE SetPercentOverRange(VolumeRange(w, m), m, value)

SetVolumePercent(w, m, value) ==
  IF ~(0 <= value /\ value <= 100)
  THEN Raise(w, "ValueError", "Volume must be between 0 and 100")
  ELSE SetPercentOverRange(VolumeRange(w, m), m, value)

GetPlaybackSwitch(e) ==
  IF e.kind # "ok" THEN e
  ELSE Checked(Call(e.w, "snd_mixer_selem_get_playback_switch",
                    Status(e.w, "call")),
               Status(e.w, "call"), "Failed to get playback switch",
               BoolV(~(e.w.hw.sw[0] # 0)))

\* the mute getter after its call of has_mute_control gave c
MutedIfSupported(c, m) ==
  IF c.kind # "ok" THEN c
  ELSE IF c.val.i = 0 THEN Ok(c.w, NoneV)
  ELSE ExitElem(GetPlaybackSwitch(EnterElem(c.w, m)))

GetMuted(w, m) == MutedIfSupported(HasMuteControl(w, m), m)

\* SetPlaybackSwitch writing the boolean itself, not its negation
SetPlaybackSwitchNotNegated(e, value) ==
  IF e.kind # "ok" THEN e
  ELSE Checked(SetPlaybackSwitchAll(e.w, IF value THEN 1 ELSE 0),
               Status(e.w, "call"), "Failed to set playback switch", NoneV)

SetPlaybackSwitch(e, value) ==
  IF e.kind # "ok" THEN e
  ELSE Checked(SetPlaybackSwitchAll(e.w, IF ~value THEN 1 ELSE 0),
               Status(e.w, "call"), "Failed to set playback switch", NoneV)

\* the mute setter after its call of has_mute_control gave c
SetMutedIfSupported(c, m, value) ==
  IF c.kind # "ok" THEN c
  ELSE IF c.val.i = 0
  THEN Raise(c.w, "ALSAError",
             "Mixer element '" \o m \o "' doesn't support playback switch")
  ELSE ExitElem(SetPlaybackSwitch(EnterElem(c.w, m), value))

\* SetMuted without the capability check
SetMutedNoCheck(w, m, value) ==
  ExitElem(SetPlaybackSwitch(EnterElem(w, m), value))

SetMuted(w, m, value) == SetMutedIfSupported(HasMuteControl(w, m), m, value)

(* ------------------------------ Card ----------------------------------- *)

\* snd_ctl_open and its _check_error, before the try block of Card.name
OpenCtl(w) ==
  IF CheckErrorRaises(Status(w, "open"))
  THEN Raise(CheckError(Call(w, "snd_ctl_open", Status(w, "open")),
                        Status(w, "open")),
             "ALSAError", "Failed to open control interface [" \o Device \o "]")
  ELSE Ok(Call([w EXCEPT !.openC = @ + 1], "snd_ctl_open", 0), NoneV)

\* snd_ctl_card_info_sizeof, snd_ctl_card_info and its _check_error
CardInfo(w) ==
  Checked(Call(Call(w, "snd_ctl_card_info_sizeof", 0),
               "snd_ctl_card_info", Status(w, "call")),
          Status(w, "call"), "Failed to get card info", NoneV)

\* the return statement of Card.name, reached when card info i was read
InfoName(i) ==
  IF i.kind # "ok" THEN i
  ELSE Ok(Call(i.w, "snd_ctl_card_info_get_name", 0), StrV(CardName))

\* the finally clause of Card.name
CloseCtl(r) ==
  [r EXCEPT !.w = Call([r.w EXCEPT !.openC = @ - 1], "snd_ctl_close", 0)]

\* the try statement of Card.name, reached when the open o succeeded
NameOfOpened(o) ==
  IF o.kind # "ok" THEN o ELSE CloseCtl(InfoName(CardInfo(o.w)))

\* the body of Card.name
ResolveName(w) == NameOfOpened(OpenCtl(PopOutcome(w)))

\* Name as a plain property: the body runs on every access
NameNoCache(w, cache) == ResolveName(w)

\* an access to Card.name: cached_property runs the body only while the
\* instance holds no cached name
Name(w, cache) ==
  IF cache # NoName THEN Ok(w, StrV(cache)) ELSE ResolveName(w)

\* cached_property stores the value the body returned
StoreName(cache, r) == IF r.kind = "ok" THEN r.val.s ELSE cache

\* the return statement of get_mixer, reached when the with block ended
\* without an exception
ReturnMixer(r, name) ==
  IF r.kind # "ok" THEN r ELSE Ok(r.w, MixerV(name, 0))

GetMixer(w, name) == ReturnMixer(ExitElem(EnterElem(w, name)), name)

\* the body of the while loop of list_mixers up to its yield
YieldMixer(w, k) ==
  Ok(Call(Call(Call(Call(w,
       "snd_mixer_selem_id_sizeof", 0),
       "snd_mixer_selem_get_id", 0),
       "snd_mixer_selem_id_get_name", 0),
       "snd_mixer_selem_id_get_index", 0),
     MixerV(ElemNames[k], 0))

\* native call f returned element k of the list, or NULL after the last
\* one: the loop yields, or ends and the with block exits
WalkTo(w, f, k) ==
  IF k <= Len(ElemNames) THEN YieldMixer(Call(w, f, 1), k)
  ELSE Raise(CloseMixerHandle(Call(w, f, 0)), "StopIteration", "")

\* the generator of list_mixers runs from its start to the first yield
StartListMixers(h) ==
  IF ~h.entered THEN Raise(h.w, "ALSAError", h.summary)
  ELSE WalkTo(h.w, "snd_mixer_first_elem", 1)

\* next() on the generator g of list_mixers
GenNext(w, g) ==
  IF g.st = "created" THEN StartListMixers(MakeAlsaMixerHandle(w))
  ELSE IF g.st = "suspended" THEN WalkTo(w, "snd_mixer_elem_next", g.pos + 1)
  ELSE Raise(w, "StopIteration", "")

\* the generator after next() gave r
GenAfterNext(g, r) ==
  IF g.st \in {"created", "suspended"}
  THEN IF r.kind = "ok" THEN [st |-> "suspended", pos |-> g.pos + 1]
       ELSE [st |-> "done", pos |-> 0]
  ELSE g

\* close() on the generator (called by the caller, or by the interpreter
\* when it finalises the generator): GeneratorExit is raised at the yield
\* and the with block exits
GenClose(w, g) ==
  IF g.st = "suspended" THEN Ok(CloseMixerHandle(w), NoneV) ELSE Ok(w, NoneV)

GenAfterClose(g) ==
  IF g.st \in {"created", "suspended"} THEN [st |-> "closed", pos |-> 0] ELSE g

(* ------------------------- inputs of the caller ------------------------ *)

\* what the environment may do to one mixer scope: nothing, fail one of the
\* four setup steps, or fail the status-returning call made inside the scope
Outcomes == {"ok", "open", "attach", "register", "load", "call"}
SetupFailures == {"open", "attach", "register", "load"}

\* one outcome per scope an operation may open; a failed setup step ends
\* the operation, so the scopes after it are never opened
PlansOf(n) ==
  {pl \in [1 .. n -> Outcomes] :
     \A a \in 1 .. n : \A b \in 1 .. n :
       (a < b /\ pl[a] \in SetupFailures) => pl[b] = "ok"}
Plans1 == PlansOf(1)
Plans2 == PlansOf(2)
Plans4 == PlansOf(4)
\* the control-interface scope of Card.name has one setup step
CtlPlans == {<<o>> : o \in {"ok", "open", "call"}}
\* the names get_mixer is called with
MixerNames == {"Master", "Capture", "NoSuchControl"}

\* the Mixer objects the caller holds; Mixer(card, name) can be built for
\* any name
Controls == {"Master", "NoSuchControl"}

World(plan) ==
  [hw |-> hw, openM |-> openM, openC |-> openC,
   trace |-> <<>>, plan |-> plan, cur |-> "ok", inScope |-> FALSE]

\* no call has returned a result the caller has yet to consume
NoRes ==
  [op |-> "init", m |-> "", arg |-> 0, kind |-> "ok", val |-> NoneV,
   summary |-> "", trace |-> <<>>]

\* the caller, holding no pending result, calls op and gets its result r
Commit(op, m, arg, r) ==
  /\ res = NoRes
  /\ hw' = r.w.hw
  /\ openM' = r.w.openM
  /\ openC' = r.w.openC
  /\ res' = [op |-> op, m |-> m, arg |-> arg, kind |-> r.kind, val |-> r.val,
             summary |-> r.summary, trace |-> r.w.trace]

NoGen == [st |-> "none", pos |-> 0]
ScaleIdle == [stage |-> "idle", vmin |-> 0, vmax |-> 0, p |-> 0, raw |-> 0, q |-> 0]

Hardware ==
  {h \in [pvol : BOOLEAN, psw : BOOLEAN,
          vmin : MinChoices, vmax : -2 .. MaxWidth,
          vol : [Channels -> -2 .. MaxWidth], sw : [Channels -> 0 .. 1]] :
     /\ h.vmin <= h.vmax /\ h.vmax - h.vmin <= MaxWidth
     /\ \A c \in Channels : h.vol[c] = h.vmin
     /\ \A c \in Channels : h.sw[c] = h.sw[0]}

Init ==
  /\ hw \in Hardware
  /\ openM = 0
  /\ openC = 0
  /\ nameCache = NoName
  /\ gen = NoGen
  /\ res = NoRes
  /\ sc = ScaleIdle

(* ------------------------- Mixer operations ---------------------------- *)

DoHasVolumeControl ==
  \E m \in Controls : \E pl \in Plans1 :
    /\ Commit("has_volume_control", m, 0, HasVolumeControl(World(pl), m))
    /\ UNCHANGED <<nameCache, gen, sc>>

DoHasMuteControl ==
  \E m \in Controls : \E pl \in Plans1 :
    /\ Commit("has_mute_control", m, 0, HasMuteControl(World(pl), m))
    /\ UNCHANGED <<nameCache, gen, sc>>

DoVolumeRange ==
  \E m \in Controls : \E pl \in Plans2 :
    /\ Commit("volume_range", m, 0, VolumeRange(World(pl), m))
    /\ UNCHANGED <<nameCache, gen, sc>>

DoGetVolume ==
  \E m \in Controls : \E pl \in Plans2 :
    /\ Commit("volume.get", m, 0, GetVolume(World(pl), m))
    /\ UNCHANGED <<nameCache, gen, sc>>

DoSetVolume ==
  \E m \in Controls : \E pl \in Plans2 :
    \E value \in (hw.vmin - 1) .. (hw.vmax + 1) :
      /\ Commit("volume.set", m, value, SetVolume(World(pl), m, value))
      /\ UNCHANGED <<nameCache, gen, sc>>

DoGetVolumePercent ==
  \E m \in Controls : \E pl \in Plans4 :
    /\ Commit("volume_percent.get", m, 0, GetVolumePercent(World(pl), m))
    /\ UNCHANGED <<nameCache, gen, sc>>

DoSetVolumePercent ==
  \E m \in Controls : \E pl \in Plans4 : \E value \in PercentInputs :
    /\ Commit("volume_percent.set", m, value,
              SetVolumePercent(World(pl), m, value))
    /\ UNCHANGED <<nameCache, gen, sc>>

DoGetMuted ==
  \E m \in Controls : \E pl \in Plans2 :
    /\ Commit("muted.get", m, 0, GetMuted(World(pl), m))
    /\ UNCHANGED <<nameCache, gen, sc>>

DoSetMuted ==
  \E m \in Controls : \E pl \in Plans2 : \E value \in BOOLEAN :
    /\ Commit("muted.set", m, IF value THEN 1 ELSE 0,
              SetMuted(World(pl), m, value))
    /\ UNCHANGED <<nameCache, gen, sc>>

\* the caller consumes the value or the exception of the last call
Continue ==
  /\ res # NoRes
  /\ res' = NoRes
  /\ UNCHANGED <<hw, openM, openC, nameCache, gen, sc>>

Next ==
  \/ DoHasVolumeControl
  \/ DoHasMuteControl
  \/ DoVolumeRange
  \/ DoGetVolume
  \/ DoSetVolume
  \/ DoGetVolumePercent
  \/ DoSetVolumePercent
  \/ DoGetMuted
  \/ DoSetMuted
  \/ Continue

Spec == Init /\ [][Next]_vars

(* -------------------------- Card operations ---------------------------- *)

DoName ==
  \E pl \in CtlPlans :
    /\ Commit("name", "", 0, Name(World(pl), nameCache))
    /\ nameCache' = StoreName(nameCache, Name(World(pl), nameCache))
    /\ UNCHANGED <<gen, sc>>

DoGetMixer ==
  \E name \in MixerNames : \E pl \in Plans1 :
    /\ Commit("get_mixer", name, 0, GetMixer(World(pl), name))
    /\ UNCHANGED <<nameCache, gen, sc>>

\* calling list_mixers only creates the generator; the caller keeps one
\* generator at a time
DoListMixers ==
  /\ gen.st \in {"none", "done", "closed"}
  /\ Commit("list_mixers", "", 0, Ok(World(<<>>), GeneratorV))
  /\ gen' = [st |-> "created", pos |-> 0]
  /\ UNCHANGED <<nameCache, sc>>

DoGenNext ==
  \E pl \in Plans1 :
    /\ gen.st # "none"
    /\ Commit("next", "", 0, GenNext(World(pl), gen))
    /\ gen' = GenAfterNext(gen, GenNext(World(pl), gen))
    /\ UNCHANGED <<nameCache, sc>>

DoGenClose ==
  /\ gen.st # "none"
  /\ Commit("close", "", 0, GenClose(World(<<>>), gen))
  /\ gen' = GenAfterClose(gen)
  /\ UNCHANGED <<nameCache, sc>>

NextCard ==
  \/ DoName
  \/ DoGetMixer
  \/ DoListMixers
  \/ DoGenNext
  \/ DoGenClose
  \/ Continue

SpecCard == Init /\ [][NextCard]_vars

(* ------------------------ the two conversions -------------------------- *)

InitScale ==
  /\ hw \in {h \in Hardware : h.pvol /\ h.psw /\ h.vmin = h.vmax /\ h.vmin = 0
                              /\ h.sw[0] = 1}
  /\ openM = 0
  /\ openC = 0
  /\ nameCache = NoName
  /\ gen = NoGen
  /\ res = NoRes
  /\ sc \in {[ScaleIdle EXCEPT !.vmin = lo, !.vmax = lo + width] :
               lo \in MinChoices, width \in 0 .. MaxScaleWidth}

\* the raw volume the setter computes for percentage p over the range
ScaleSet ==
  \E p \in 0 .. 100 :
    /\ sc.stage = "idle"
    /\ sc' = [sc EXCEPT !.stage = "set", !.p = p,
                        !.raw = PercentToRaw(p, sc.vmin, sc.vmax)]
    /\ UNCHANGED <<hw, openM, openC, nameCache, gen, res>>

\* the percentage the getter computes for that raw volume over the range
ScaleGet ==
  /\ sc.stage = "set"
  /\ sc' = [sc EXCEPT !.stage = "got",
                      !.q = RawToPercent(World(<<>>), sc.raw, sc.vmin, sc.vmax).val.i]
  /\ UNCHANGED <<hw, openM, openC, nameCache, gen, res>>

NextScale ==
  \/ ScaleSet
  \/ ScaleGet

SpecScale == InitScale /\ [][NextScale]_vars

(* ------------------------------ claims --------------------------------- *)

\* how often native function f was called in trace tr
Count(tr, f) == Cardinality({k \in 1 .. Len(tr) : tr[k].f = f})
\* some native call of trace tr returned a negative status
NegativeIn(tr) == \E k \in 1 .. Len(tr) : tr[k].st < 0
\* mixer handles opened by the calls of trace tr, and closed by them
Opened(tr) ==
  Cardinality({k \in 1 .. Len(tr) : tr[k].f = "snd_mixer_open" /\ tr[k].st >= 0})
Closed(tr) == Count(tr, "snd_mixer_close")

SetupCalls ==
  <<"snd_mixer_open", "snd_mixer_attach", "snd_mixer_selem_register",
    "snd_mixer_load">>
SetupSummaries ==
  <<"Failed to open mixer", "Failed to attach mixer to hw:0",
    "Failed to register mixer elements", "Failed to load mixer elements">>
\* the setup calls of trace tr, in the order they were made
SetupOf(tr) ==
  SelectSeq(tr, LAMBDA e : \E k \in 1 .. 4 : SetupCalls[k] = e.f)

\* C1: whenever control is with the caller, every control-interface handle
\* and every mixer handle a public operation opened has been closed; this
\* includes the points between two values of the sequence list_mixers gives
C1_NoHandleOpenAtCaller == openM = 0 /\ openC = 0

\* C2: in the mixer scope (here the one get_mixer opens) the setup calls run
\* in the order open, attach, register, load; a step with a negative status
\* is the last one made, the block is then not entered, the operation fails
\* with ALSAError carrying the summary of that step, the four summaries are
\* pairwise distinct, and the mixer is closed once iff open succeeded
C2_MixerScopeSetup ==
  res.op = "get_mixer" =>
    LET ss == SetupOf(res.trace)
        n == Len(ss)
        entered == Count(res.trace, "snd_mixer_selem_id_sizeof") > 0
    IN  /\ n \in 1 .. 4
        /\ \A k \in 1 .. n : ss[k].f = SetupCalls[k] /\ res.trace[k] = ss[k]
        /\ \A k \in 1 .. (n - 1) : ss[k].st >= 0
        /\ Cardinality({SetupSummaries[k] : k \in 1 .. 4}) = 4
        /\ Closed(res.trace) = (IF ss[1].st >= 0 THEN 1 ELSE 0)
        /\ IF ss[n].st < 0
           THEN /\ ~entered
                /\ Count(res.trace, "snd_mixer_find_selem") = 0
                /\ res.kind = "ALSAError"
                /\ res.summary = SetupSummaries[n]
           ELSE n = 4 /\ entered
        /\ entered => /\ n = 4
                      /\ ss[4].st >= 0
                      /\ res.trace[5].f = "snd_mixer_selem_id_sizeof"

C2_Witness ==
  /\ res.op = "get_mixer"
  /\ res.kind = "ALSAError"
  /\ res.summary = "Failed to register mixer elements"
  /\ Closed(res.trace) = 1
  /\ Count(res.trace, "snd_mixer_load") = 0

\* C3: an operation in which some native call returned a negative status
\* fails with ALSAError (in particular volume_range, when the native range
\* query fails, does not return a pair)
C3_NegativeStatusFails == NegativeIn(res.trace) => res.kind = "ALSAError"

C5_PercentInRange ==
  res.op = "volume_percent.get" =>
    /\ res.kind \in {"ok", "ALSAError"}
    /\ (res.kind = "ok" /\ hw.pvol) =>
         /\ res.val.tag = "int"
         /\ res.val.i \in 0 .. 100
         /\ hw.vmin = hw.vmax => res.val.i = 0
    /\ (res.kind = "ok" /\ ~hw.pvol) => res.val = NoneV

C5_Witness ==
  /\ res.op = "volume_percent.get"
  /\ res.kind = "ok"
  /\ hw.pvol
  /\ hw.vmin = hw.vmax
  /\ res.val = IntV(0)
  /\ ~NegativeIn(res.trace)

\* C6: a successful volume_percent = p, p in 0..100, on a control with range
\* [min, max] makes one native set call and leaves every playback channel at
\* round(min + p * (max - min) / 100), which lies in [min, max], is min for
\* p = 0 and max for p = 100
C6_PercentWritesScaledRaw ==
  (res.op = "volume_percent.set" /\ res.kind = "ok") =>
    /\ Count(res.trace, "snd_mixer_selem_set_playback_volume_all") = 1
    /\ \A c \in Channels :
         /\ hw.vol[c] = Round(100 * hw.vmin + res.arg * (hw.vmax - hw.vmin), 100)
         /\ hw.vol[c] >= hw.vmin /\ hw.vol[c] <= hw.vmax
         /\ res.arg = 0 => hw.vol[c] = hw.vmin
         /\ res.arg = 100 => hw.vol[c] = hw.vmax

\* C7: volume_percent = v with v outside 0..100 raises ValueError (not
\* ALSAError), makes no native call and leaves the hardware as it was,
\* whatever the control
C7_OutOfRangePercentRejected ==
  [][(res'.op = "volume_percent.set" /\ res'.arg \notin 0 .. 100) =>
       /\ res'.kind = "ValueError"
       /\ res'.kind # "ALSAError"
       /\ res'.trace = <<>>
       /\ hw' = hw
       /\ openM' = openM]_vars

C7_Witness ==
  /\ res.op = "volume_percent.set"
  /\ res.arg = 101
  /\ res.m = "NoSuchControl"
  /\ res.kind = "ValueError"

\* C8: setting the raw volume or a percentage in 0..100 on a control without
\* playback volume, or mute on a control without playback switch, raises
\* ALSAError (the one of the capability check unless a native call failed
\* before), makes no native set call, leaves the hardware as it was and
\* leaves no mixer handle open
C8_UnsupportedWriteFails ==
  [][(/\ res'.m = "Master"
      /\ \/ res'.op = "volume.set" /\ ~hw.pvol
         \/ res'.op = "volume_percent.set" /\ res'.arg \in 0 .. 100 /\ ~hw.pvol
         \/ res'.op = "muted.set" /\ ~hw.psw) =>
       /\ res'.kind = "ALSAError"
       /\ ~NegativeIn(res'.trace) =>
            res'.summary =
              (IF res'.op = "muted.set"
               THEN "Mixer element 'Master' doesn't support playback switch"
               ELSE "Mixer element 'Master' doesn't support playback volume")
       /\ Count(res'.trace, "snd_mixer_selem_set_playback_volume_all") = 0
       /\ Count(res'.trace, "snd_mixer_selem_set_playback_switch_all") = 0
       /\ hw' = hw
       /\ Opened(res'.trace) = Closed(res'.trace)
       /\ openM' = openM]_vars

C8_Witness ==
  /\ res.op = "muted.set"
  /\ res.m = "Master"
  /\ ~hw.psw
  /\ res.kind = "ALSAError"
  /\ res.summary = "Mixer element 'Master' doesn't support playback switch"

\* C9: a successful muted = b changes nothing but the switch and leaves the
\* switch of every playback channel at the negation of b; a read of muted
\* returns the negation of the switch and changes nothing; the switch
\* changes in no other step, so a read returns b until the next successful
\* mute write, and writing the same b again leaves the hardware as it is
C9_MuteWriteRead ==
  [][/\ (res'.op = "muted.set" /\ res'.kind = "ok") =>
          hw' = [hw EXCEPT !.sw = [c \in Channels |-> 1 - res'.arg]]
     /\ (res'.op = "muted.get" /\ res'.kind = "ok" /\ hw.psw) =>
          /\ res'.val = BoolV(hw.sw[0] = 0)
          /\ \A c \in Channels : res'.val.i = 1 - hw.sw[c]
     /\ hw'.sw # hw.sw => res'.op = "muted.set" /\ res'.kind = "ok"]_vars

C9_Witness ==
  /\ res.op = "muted.set"
  /\ res.arg = 1
  /\ res.kind = "ok"
  /\ \A c \in Channels : hw.sw[c] = 0

\* C10: once an access to Card.name succeeded, every later access returns
\* that string and makes no native call; an access in which snd_ctl_open or
\* snd_ctl_card_info fails raises ALSAError, returns no name, caches nothing,
\* and has closed the control handle iff the open succeeded
C10_NameCachedOnce ==
  [][/\ nameCache # NoName => nameCache' = nameCache
     /\ res'.op = "name" =>
          IF nameCache # NoName
          THEN /\ res'.kind = "ok"
               /\ res'.val = StrV(nameCache)
               /\ res'.trace = <<>>
          ELSE /\ res'.kind \in {"ok", "ALSAError"}
               /\ openC' = openC
               /\ res'.kind = "ok" =>
                    /\ res'.val.tag = "str"
                    /\ res'.val.s # NoName
                    /\ nameCache' = res'.val.s
                    /\ Count(res'.trace, "snd_ctl_close") = 1
               /\ res'.kind = "ALSAError" =>
                    /\ res'.val = NoneV
                    /\ nameCache' = NoName
                    /\ NegativeIn(res'.trace)
                    /\ Count(res'.trace, "snd_ctl_close") =
                         (IF res'.trace[1].st >= 0 THEN 1 ELSE 0)]_vars

C10_Witness ==
  /\ res.op = "name"
  /\ res.kind = "ok"
  /\ res.val = StrV(CardName)
  /\ res.trace = <<>>

====
